---- MODULE Spec2Model ----
(***************************************************************************)
(* Model of main.py: the API-key dependency, the five routes and the       *)
(* recommendation-table normalizer recs_to_records.                        *)
(*                                                                         *)
(* Python strings are modelled as sequences of one-character strings so    *)
(* that split, strip, lower, replace and the substring test are computed   *)
(* character by character.                                                 *)
(***************************************************************************)
EXTENDS Integers, Sequences, FiniteSets, TLC

VARIABLES route, header, API_KEY, symbols, pc, syms, i, result, status, body,
          calls, outcomes, recs, col_map, out

vars == <<route, header, API_KEY, symbols, pc, syms, i, result, status, body,
          calls, outcomes, recs, col_map, out>>

(***************************************************************************)
(* Bounds of the model.                                                    *)
(***************************************************************************)
\* longest raw text of the symbols query parameter / path parameter
MaxLen == 3
\* most non-index columns of a recommendations table
MaxCols == 4
\* most rows of a recommendations table
MaxRows == 2

(***************************************************************************)
(* Generic helpers.                                                        *)
(***************************************************************************)
Range(s) == {s[k] : k \in 1..Len(s)}

SetMax(S) == CHOOSE x \in S : \A y \in S : y <= x

SetMin(S) == CHOOSE x \in S : \A y \in S : x <= y

\* the empty dict {}
EmptyMap == [x \in {} |-> 0]

\* d[k] = v on a dict
Put(d, k, v) == [x \in (DOMAIN d) \cup {k} |-> IF x = k THEN v ELSE d[x]]

\* all sequences over S of length at most n
SeqsUpTo(S, n) == UNION {[1..m -> S] : m \in 0..n}

(***************************************************************************)
(* Python str operations.                                                  *)
(***************************************************************************)
UpperChars == <<"A","B","C","D","E","F","G","H","I","J","K","L","M",
                "N","O","P","Q","R","S","T","U","V","W","X","Y","Z">>

LowerChars == <<"a","b","c","d","e","f","g","h","i","j","k","l","m",
                "n","o","p","q","r","s","t","u","v","w","x","y","z">>

\* the characters str.strip() removes
Whitespace == {" ", "\n", "\t"}

LowerChar(c) ==
    IF \E k \in 1..Len(UpperChars) : UpperChars[k] = c
    THEN LowerChars[CHOOSE k \in 1..Len(UpperChars) : UpperChars[k] = c]
    ELSE c

\* s.lower()
Lower(s) == [k \in 1..Len(s) |-> LowerChar(s[k])]

\* s.replace(a, b) for one-character a and b
Replace(s, a, b) == [k \in 1..Len(s) |-> IF s[k] = a THEN b ELSE s[k]]

\* s.strip()
Strip(s) ==
    LET keep == {k \in 1..Len(s) : s[k] \notin Whitespace}
    IN  IF keep = {} THEN <<>> ELSE SubSeq(s, SetMin(keep), SetMax(keep))

\* sub in s
Contains(sub, s) ==
    \E k \in 0..(Len(s) - Len(sub)) : SubSeq(s, k + 1, k + Len(sub)) = sub

\* s.split(sep) for a one-character sep: the pieces between the separators,
\* empty pieces included
RECURSIVE Split(_, _)
Split(s, sep) ==
    LET at == {k \in 1..Len(s) : s[k] = sep}
    IN  IF at = {} THEN <<s>>
        ELSE LET k == SetMin(at)
             IN  <<SubSeq(s, 1, k - 1)>> \o Split(SubSeq(s, k + 1, Len(s)), sep)

\* [f(x) for x in xs if x.strip()] with f = strip
RECURSIVE StripNonEmpty(_)
StripNonEmpty(xs) ==
    IF xs = <<>> THEN <<>>
    ELSE IF Strip(Head(xs)) # <<>>
         THEN <<Strip(Head(xs))>> \o StripNonEmpty(Tail(xs))
         ELSE StripNonEmpty(Tail(xs))

(***************************************************************************)
(* recs_to_records.                                                        *)
(*                                                                         *)
(* A DataFrame is [index_name, columns, index, data]: the name of the      *)
(* index (NoName when it has none), the column labels, the index values    *)
(* (one per row) and the rows (one cell per column); none is TRUE for the  *)
(* value None, NoTable.                                                    *)
(***************************************************************************)
NoTable == [none |-> TRUE, index_name |-> <<>>, columns |-> <<>>,
            index |-> <<>>, data |-> <<>>]

NoName == <<"?">>

date == <<"d","a","t","e">>

firm == <<"f","i","r","m">>

to_grade == <<"t","o","_","g","r","a","d","e">>

from_grade == <<"f","r","o","m","_","g","r","a","d","e">>

\* the literals compared against in the rename loop
firm_lit == <<"f","i","r","m">>

to_grade_lit == <<"t","o"," ","g","r","a","d","e">>

from_grade_lit == <<"f","r","o","m"," ","g","r","a","d","e">>

\* the label reset_index gives an unnamed index
index_label == <<"i","n","d","e","x">>

required == <<date, firm, to_grade, from_grade>>

\* recs is None or recs.empty: a frame is empty when either axis has length 0
IsEmpty(t) == t.none \/ Len(t.index) = 0 \/ Len(t.columns) = 0

\* recs.reset_index(): the index becomes the first column
reset_index(t) ==
    [columns |-> <<IF t.index_name = NoName THEN index_label ELSE t.index_name>>
                    \o t.columns,
     rows    |-> [r \in 1..Len(t.index) |-> <<t.index[r]>> \o t.data[r]]]

\* lc = col.lower().replace('_', ' ').strip()
NormName(col) == Strip(Replace(Lower(col), "_", " "))

\* the rename chain with every branch an equality test
MapColumn_exact(col) ==
    LET lc == Strip(Replace(Lower(col), "_", " "))
    IN  IF lc = firm_lit THEN firm
        ELSE IF lc = to_grade_lit THEN to_grade
        ELSE IF lc = from_grade_lit THEN from_grade
        ELSE <<>>

\* the if / elif chain of the rename loop: the canonical key col is renamed
\* to, or <<>> when no branch is taken
MapColumn(col) ==
    LET lc == NormName(col)
        lc1 == Replace(lc, "\n", " ")
    IN  IF lc = firm_lit THEN firm
        ELSE IF Contains(to_grade_lit, lc1) THEN to_grade
        ELSE IF Contains(from_grade_lit, lc1) THEN from_grade
        ELSE <<>>

\* for col in df.columns[1:]: ... col_map[col] = ...
RECURSIVE RenameLoop(_, _)
RenameLoop(cols, m) ==
    IF cols = <<>> THEN m
    ELSE LET key == MapColumn(Head(cols))
         IN  RenameLoop(Tail(cols),
                        IF key # <<>> THEN Put(m, Head(cols), key) ELSE m)

\* col_map = {}; col_map[idx_col] = 'date'; the loop
BuildColMap(df) ==
    RenameLoop(Tail(df.columns), Put(EmptyMap, df.columns[1], date))

\* df.rename(columns=col_map)
rename(df, m) ==
    [columns |-> [k \in 1..Len(df.columns) |->
                     IF df.columns[k] \in DOMAIN m THEN m[df.columns[k]]
                     ELSE df.columns[k]],
     rows    |-> df.rows]

\* missing = [c for c in required if c not in df.columns]
Missing(df) == SelectSeq(required, LAMBDA c : c \notin Range(df.columns))

\* df[required].to_dict(orient="records"): the selection keeps every column
\* carrying a required label; dict(zip(columns, row)) keeps, for a label
\* carried by several columns, the cell of the last one
to_dict(df) ==
    [r \in 1..Len(df.rows) |->
        [key \in Range(required) |->
            df.rows[r][SetMax({k \in 1..Len(df.columns) : df.columns[k] = key})]]]

Return(v) == [kind |-> "return", value |-> v]

\* raise HTTPException(status_code=500, detail=f"Missing rec columns after rename: {missing}")
RaiseMissing(missing) ==
    [kind |-> "raise",
     exc  |-> [type |-> "HTTPException", status_code |-> 500,
               detail |-> [prefix |-> "",
                           text |-> "Missing rec columns after rename: ",
                           missing |-> missing]]]

recs_to_records(t) ==
    IF IsEmpty(t) THEN Return(<<>>)
    ELSE LET df0 == reset_index(t)
             df == rename(df0, BuildColMap(df0))
             missing == Missing(df)
         IN  IF missing # <<>> THEN RaiseMissing(missing)
             ELSE Return(to_dict(df))

(***************************************************************************)
(* Values crossing the HTTP boundary.  A JSON value is tagged with its     *)
(* shape: an info payload, a sequence of records, an {"error": ...}        *)
(* object, a symbol -> entry mapping, the root payload, or the detail of   *)
(* an error response.                                                      *)
(***************************************************************************)
Json(shape, v) == [json |-> shape, v |-> v]

\* {"error": msg}
ErrorObject(msg) == Json("error_object", msg)

\* a message text; missing carries the list formatted into the text
Msg(text) == [prefix |-> "", text |-> text, missing |-> <<>>]

\* Exception(text), as the provider raises it
Exc(text) == [type |-> "Exception", status_code |-> 0, detail |-> Msg(text)]

Raise(e) == [kind |-> "raise", exc |-> e]

\* str(e): the message of a plain exception; "<status_code>: <detail>" for an
\* HTTPException
Str(e) ==
    IF e.type = "HTTPException"
    THEN [prefix |-> "500: ", text |-> e.detail.text, missing |-> e.detail.missing]
    ELSE e.detail

(***************************************************************************)
(* The data provider, an opaque collaborator: every call returns a value   *)
(* or raises, chosen by the environment.                                   *)
(***************************************************************************)
Cell(r, c) == [kind |-> "value", r |-> r, c |-> c]

\* the provider's missing-value sentinel
NaN == [kind |-> "NaN", r |-> 0, c |-> 0]

\* JSON null
Null == [kind |-> "null", r |-> 0, c |-> 0]

NoCell == <<0, 0>>

CellAt(r, c, nanAt) == IF nanAt = <<r, c>> THEN NaN ELSE Cell(r, c)

\* a frame whose cell in row r, column c (0: the index) is Cell(r, c), with
\* the sentinel at nanAt
MkTable(name, cols, n, nanAt) ==
    [none |-> FALSE, index_name |-> name, columns |-> cols,
     index |-> [r \in 1..n |-> CellAt(r, 0, nanAt)],
     data  |-> [r \in 1..n |-> [c \in 1..Len(cols) |-> CellAt(r, c, nanAt)]]]

col_Date == <<"D","a","t","e">>

col_Firm == <<"F","i","r","m">>

col_Firms == <<"F","i","r","m","s">>

col_To_Grade == <<"T","o"," ","G","r","a","d","e">>

col_to_grade == <<"t","o","_","g","r","a","d","e">>

col_To_nl_Grade == <<"T","o","\n","G","r","a","d","e">>

col_From_Grade == <<"F","r","o","m","_","G","r","a","d","e"," ">>

col_Into_Grade == <<"I","n","t","o"," ","G","r","a","d","e">>

col_From_To == <<"F","r","o","m"," ","G","r","a","d","e"," ",
                 "T","o"," ","G","r","a","d","e">>

\* column labels the provider may use
ColumnPool == <<col_Firm, col_Firms, col_To_Grade, col_to_grade, col_To_nl_Grade,
                col_From_Grade, col_Into_Grade, col_From_To, date>>

IndexNames == {col_Date, NoName}

Reverse(s) == [k \in 1..Len(s) |-> s[Len(s) + 1 - k]]

\* the column labels of a table: at most MaxCols labels of the pool, no label
\* twice, in the pool's order or in the opposite order
ColumnLists ==
    LET picks == {S \in SUBSET (1..Len(ColumnPool)) : Cardinality(S) <= MaxCols}
        InOrder(S) == [k \in 1..Cardinality(S) |->
                         ColumnPool[CHOOSE x \in S :
                                      Cardinality({y \in S : y < x}) = k - 1]]
    IN  {InOrder(S) : S \in picks} \cup {Reverse(InOrder(S)) : S \in picks}

\* the tables recs_to_records is checked on
NormTables ==
    {NoTable} \cup
    {MkTable(name, cols, n, nanAt) :
        name \in IndexNames, cols \in ColumnLists,
        n \in 0..MaxRows, nanAt \in {NoCell} \cup ((1..MaxRows) \X (0..MaxCols))}

\* the tables the routes are checked on
RouteTables ==
    {NoTable,
     MkTable(col_Date, <<col_Firm, col_To_Grade, col_From_Grade>>, 0, NoCell),
     MkTable(col_Date, <<col_Firm, col_To_Grade, col_From_Grade>>, 1, NoCell),
     MkTable(NoName, <<col_From_Grade, col_Firm, col_To_Grade>>, 1, NoCell),
     MkTable(col_Date, <<col_Firm, col_To_Grade>>, 1, NoCell),
     MkTable(col_Date, <<col_Firms>>, 1, NoCell)}

Messages == {"timeout", "not found"}

Infos == {"info1", "info2"}

\* yf.Ticker(s).recommendations
RecsOutcomes == {Return(t) : t \in RouteTables} \cup {Raise(Exc(m)) : m \in Messages}

\* yf.Ticker(s).info, t.info
InfoOutcomes == {Return(x) : x \in Infos} \cup {Raise(Exc(m)) : m \in Messages}

\* yf.Tickers(...)
TickersOutcomes == {Return("tickers")} \cup {Raise(Exc(m)) : m \in Messages}

(***************************************************************************)
(* Requests.                                                               *)
(***************************************************************************)
Routes == {"root", "quote", "quotes", "recommendation", "recommendations"}

BatchRoutes == {"quotes", "recommendations"}

\* the header is absent from the request
NoHeader == "<absent>"

\* os.getenv("API_KEY") when the variable is not set
NoApiKey == "<None>"

HeaderValues == {"k1", "k2"}

QueryChars == {"A", "B", ",", " "}

PathSymbols == {<<"A">>, <<"B">>}

NoBody == Json("none", <<>>)

\* the text of a request parameter, by route
Params(r) ==
    IF r \in BatchRoutes THEN SeqsUpTo(QueryChars, MaxLen)
    ELSE IF r = "root" THEN {<<>>}
    ELSE PathSymbols

\* the list comprehension filtering on s instead of s.strip()
RECURSIVE StripNonEmptyRaw(_)
StripNonEmptyRaw(xs) ==
    IF xs = <<>> THEN <<>>
    ELSE IF Head(xs) # <<>>
         THEN <<Strip(Head(xs))>> \o StripNonEmptyRaw(Tail(xs))
         ELSE StripNonEmptyRaw(Tail(xs))

ParseSymbols_unstripped(text) == StripNonEmptyRaw(Split(text, ","))

\* syms = [s.strip() for s in symbols.split(",") if s.strip()]
ParseSymbols(text) == StripNonEmpty(Split(text, ","))

\* APIKeyHeader(name="X-API-KEY"): rejects a request without the header
api_key_header(h) ==
    IF h = NoHeader THEN Raise([type |-> "HTTPException", status_code |-> 403,
                                detail |-> Msg("Not authenticated")])
    ELSE Return(h)

\* the key check skipped when the server holds no key
verify_api_key_optional(api_key) ==
    IF API_KEY # NoApiKey /\ api_key # API_KEY
    THEN Raise([type |-> "HTTPException", status_code |-> 403,
                detail |-> Msg("Invalid or missing API Key")])
    ELSE Return("None")

verify_api_key(api_key) ==
    IF api_key # API_KEY
    THEN Raise([type |-> "HTTPException", status_code |-> 403,
                detail |-> Msg("Invalid or missing API Key")])
    ELSE Return("None")

Respond(code, b) ==
    /\ status' = code
    /\ body' = b
    /\ pc' = "done"

\* an exception leaving a handler: the server answers 500
Unhandled == Respond(500, Json("detail", Msg("Internal Server Error")))

\* raise HTTPException(...) leaving a handler or a dependency
Reject(e) == Respond(e.status_code, Json("detail", e.detail))

normVars == <<recs, col_map, out>>

requestVars == <<route, header, API_KEY, symbols>>

\* the key check made after the symbol list has been checked
Authenticate_after_validation ==
    /\ pc = "auth"
    /\ IF route \in BatchRoutes /\ ParseSymbols(symbols) = <<>>
          THEN Respond(400, Json("detail", Msg("No symbols provided")))
          ELSE IF api_key_header(header).kind = "raise"
          THEN Reject(api_key_header(header).exc)
          ELSE IF verify_api_key(api_key_header(header).value).kind = "raise"
          THEN Reject(verify_api_key(api_key_header(header).value).exc)
          ELSE /\ pc' = "handler"
               /\ UNCHANGED <<status, body>>
    /\ UNCHANGED <<requestVars, syms, i, result, calls, outcomes, normVars>>

\* dependencies=[Depends(verify_api_key)]: runs before the handler
Authenticate ==
    /\ pc = "auth"
    /\ IF api_key_header(header).kind = "raise"
          THEN Reject(api_key_header(header).exc)
          ELSE IF verify_api_key(api_key_header(header).value).kind = "raise"
          THEN Reject(verify_api_key(api_key_header(header).value).exc)
          ELSE /\ pc' = "handler"
               /\ UNCHANGED <<status, body>>
    /\ UNCHANGED <<requestVars, syms, i, result, calls, outcomes, normVars>>

root ==
    /\ pc = "handler" /\ route = "root"
    /\ Respond(200, Json("root", "YFinance API is live"))
    /\ UNCHANGED <<requestVars, syms, i, result, calls, outcomes, normVars>>

get_quote ==
    /\ pc = "handler" /\ route = "quote"
    /\ \E o \in InfoOutcomes :
          /\ calls' = Append(calls, <<"Ticker.info", symbols>>)
          /\ outcomes' = Append(outcomes, o)
          /\ IF o.kind = "raise"
                THEN Respond(500, Json("detail", Str(o.exc)))
                ELSE Respond(200, Json("info", o.value))
    /\ UNCHANGED <<requestVars, syms, i, result, normVars>>

\* get_recommendation without its "except HTTPException: raise" clause
get_recommendation_rewrap ==
    /\ pc = "handler" /\ route = "recommendation"
    /\ \E o \in RecsOutcomes :
          /\ calls' = Append(calls, <<"Ticker.recommendations", symbols>>)
          /\ outcomes' = Append(outcomes, o)
          /\ IF o.kind = "raise"
                THEN Respond(500, Json("detail", Str(o.exc)))
                ELSE IF recs_to_records(o.value).kind = "raise"
                THEN Respond(500, Json("detail", Str(recs_to_records(o.value).exc)))
                ELSE Respond(200, Json("records", recs_to_records(o.value).value))
    /\ UNCHANGED <<requestVars, syms, i, result, normVars>>

get_recommendation ==
    /\ pc = "handler" /\ route = "recommendation"
    /\ \E o \in RecsOutcomes :
          /\ calls' = Append(calls, <<"Ticker.recommendations", symbols>>)
          /\ outcomes' = Append(outcomes, o)
          /\ IF o.kind = "raise"
                THEN Respond(500, Json("detail", Str(o.exc)))
                ELSE IF recs_to_records(o.value).kind = "raise"
                THEN Reject(recs_to_records(o.value).exc)
                ELSE Respond(200, Json("records", recs_to_records(o.value).value))
    /\ UNCHANGED <<requestVars, syms, i, result, normVars>>

\* get_quotes up to the check of the symbol list
get_quotes_parse ==
    /\ pc = "handler" /\ route = "quotes"
    /\ syms' = ParseSymbols(symbols)
    /\ IF syms' = <<>>
          THEN Respond(400, Json("detail", Msg("No symbols provided")))
          ELSE /\ pc' = "tickers"
               /\ UNCHANGED <<status, body>>
    /\ UNCHANGED <<requestVars, i, result, calls, outcomes, normVars>>

\* tickers = yf.Tickers(" ".join(syms)); result = {}
get_quotes_tickers ==
    /\ pc = "tickers"
    /\ \E o \in TickersOutcomes :
          /\ calls' = Append(calls, <<"Tickers", syms>>)
          /\ IF o.kind = "raise"
                THEN /\ Unhandled
                     /\ UNCHANGED <<i, result>>
                ELSE /\ pc' = "quotes_loop"
                     /\ i' = 1
                     /\ result' = EmptyMap
                     /\ UNCHANGED <<status, body>>
    /\ UNCHANGED <<requestVars, syms, outcomes, normVars>>

\* one pass of the loop of get_quotes: t = tickers.tickers.get(s);
\* result[s] = t.info if t else {"error": "Ticker not found"}
get_quotes_loop ==
    /\ pc = "quotes_loop" /\ i <= Len(syms)
    /\ \/ /\ result' = Put(result, syms[i], ErrorObject(Msg("Ticker not found")))
          /\ outcomes' = Append(outcomes, Return("no ticker"))
          /\ i' = i + 1
          /\ UNCHANGED <<pc, status, body, calls>>
       \/ \E o \in InfoOutcomes :
             /\ calls' = Append(calls, <<"Ticker.info", syms[i]>>)
             /\ outcomes' = Append(outcomes, o)
             /\ IF o.kind = "raise"
                   THEN /\ Unhandled
                        /\ UNCHANGED <<i, result>>
                   ELSE /\ result' = Put(result, syms[i], Json("info", o.value))
                        /\ i' = i + 1
                        /\ UNCHANGED <<pc, status, body>>
    /\ UNCHANGED <<requestVars, syms, normVars>>

\* return result
get_quotes_return ==
    /\ pc = "quotes_loop" /\ i > Len(syms)
    /\ Respond(200, Json("mapping", result))
    /\ UNCHANGED <<requestVars, syms, i, result, calls, outcomes, normVars>>

\* get_recommendations up to the check of the symbol list; result = {}
get_recommendations_parse ==
    /\ pc = "handler" /\ route = "recommendations"
    /\ syms' = ParseSymbols(symbols)
    /\ IF syms' = <<>>
          THEN /\ Respond(400, Json("detail", Msg("No symbols provided")))
               /\ UNCHANGED <<i, result>>
          ELSE /\ pc' = "recs_loop"
               /\ i' = 1
               /\ result' = EmptyMap
               /\ UNCHANGED <<status, body>>
    /\ UNCHANGED <<requestVars, calls, outcomes, normVars>>

\* the entry the try / except of get_recommendations stores for a fetch
\* outcome o
RecsEntry(o) ==
    IF o.kind = "raise" THEN ErrorObject(Str(o.exc))
    ELSE IF recs_to_records(o.value).kind = "raise"
    THEN ErrorObject(recs_to_records(o.value).exc.detail)
    ELSE Json("records", recs_to_records(o.value).value)

\* the loop of get_recommendations without its try / except
get_recommendations_loop_noexcept ==
    /\ pc = "recs_loop" /\ i <= Len(syms)
    /\ \E o \in RecsOutcomes :
          /\ calls' = Append(calls, <<"Ticker.recommendations", syms[i]>>)
          /\ outcomes' = Append(outcomes, o)
          /\ IF o.kind = "raise"
                THEN /\ Unhandled
                     /\ UNCHANGED <<i, result>>
                ELSE IF recs_to_records(o.value).kind = "raise"
                THEN /\ Reject(recs_to_records(o.value).exc)
                     /\ UNCHANGED <<i, result>>
                ELSE /\ result' = Put(result, syms[i],
                                      Json("records", recs_to_records(o.value).value))
                     /\ i' = i + 1
                     /\ UNCHANGED <<pc, status, body>>
    /\ UNCHANGED <<requestVars, syms, normVars>>

\* one pass of the loop of get_recommendations
get_recommendations_loop ==
    /\ pc = "recs_loop" /\ i <= Len(syms)
    /\ \E o \in RecsOutcomes :
          /\ calls' = Append(calls, <<"Ticker.recommendations", syms[i]>>)
          /\ outcomes' = Append(outcomes, o)
          /\ result' = Put(result, syms[i], RecsEntry(o))
          /\ i' = i + 1
    /\ UNCHANGED <<requestVars, pc, syms, status, body, normVars>>

\* return result
get_recommendations_return ==
    /\ pc = "recs_loop" /\ i > Len(syms)
    /\ Respond(200, Json("mapping", result))
    /\ UNCHANGED <<requestVars, syms, i, result, calls, outcomes, normVars>>

\* one request: its route, header and parameter, and the server's key
Init ==
    /\ route \in Routes
    /\ header \in HeaderValues \cup {NoHeader}
    /\ API_KEY \in {"k1", NoApiKey}
    /\ symbols \in Params(route)
    /\ pc = "auth"
    /\ syms = <<>>
    /\ i = 0
    /\ result = EmptyMap
    /\ status = 0
    /\ body = NoBody
    /\ calls = <<>>
    /\ outcomes = <<>>
    /\ recs = NoTable
    /\ col_map = EmptyMap
    /\ out = Return(<<>>)

Next ==
    \/ Authenticate
    \/ root
    \/ get_quote
    \/ get_quotes_parse
    \/ get_quotes_tickers
    \/ get_quotes_loop
    \/ get_quotes_return
    \/ get_recommendation
    \/ get_recommendations_parse
    \/ get_recommendations_loop
    \/ get_recommendations_return

Spec == Init /\ [][Next]_vars

(***************************************************************************)
(* recs_to_records on its own: one call on a table the provider may return.*)
(***************************************************************************)
Normalize ==
    /\ pc = "normalize"
    /\ col_map' = IF IsEmpty(recs) THEN EmptyMap
                  ELSE BuildColMap(reset_index(recs))
    /\ out' = recs_to_records(recs)
    /\ pc' = "normalized"
    /\ UNCHANGED <<requestVars, syms, i, result, status, body, calls, outcomes,
                   recs>>

NormInit ==
    /\ recs \in NormTables
    /\ pc = "normalize"
    /\ route = "none"
    /\ header = NoHeader
    /\ API_KEY = NoApiKey
    /\ symbols = <<>>
    /\ syms = <<>>
    /\ i = 0
    /\ result = EmptyMap
    /\ status = 0
    /\ body = NoBody
    /\ calls = <<>>
    /\ outcomes = <<>>
    /\ col_map = EmptyMap
    /\ out = Return(<<>>)

NormNext == Normalize

NormSpec == NormInit /\ [][NormNext]_vars

(***************************************************************************)
(* Properties.                                                             *)
(***************************************************************************)
\* the request carries the key the server holds
KeyOk == header # NoHeader /\ header = API_KEY

\* the text has a character that is neither a comma nor whitespace, that is,
\* a token that is non-empty after trimming
HasToken(text) == \E k \in 1..Len(text) : text[k] \notin ({","} \cup Whitespace)

\* the last pass of a batch loop that handled symbol s
LastPass(s) == SetMax({k \in 1..Len(syms) : syms[k] = s})

\* sub occurs in s, position by position
HasSub(sub, s) ==
    \E a \in 1..Len(s) :
        /\ a + Len(sub) - 1 <= Len(s)
        /\ \A j \in 1..Len(sub) : s[a + j - 1] = sub[j]

\* the non-index columns carry, for each of firm, to_grade and from_grade, a
\* label equal to it up to case, underscores and surrounding whitespace
Reconciles(t) ==
    \A lit \in {firm_lit, to_grade_lit, from_grade_lit} :
        \E k \in 1..Len(t.columns) : NormName(t.columns[k]) = lit

\* the labels of the frame after the rename, as a set
RenamedLabels(t) ==
    {date} \cup {IF MapColumn(t.columns[k]) # <<>> THEN MapColumn(t.columns[k])
                 ELSE t.columns[k] : k \in 1..Len(t.columns)}

\* the cells of row r in the columns that carry label key after the rename
SourceCells(t, r, key) ==
    (IF key = date THEN {t.index[r]} ELSE {}) \cup
    {t.data[r][k] : k \in {j \in 1..Len(t.columns) :
                             (IF MapColumn(t.columns[j]) # <<>>
                              THEN MapColumn(t.columns[j]) ELSE t.columns[j]) = key}}

\* C1: a finished, authorised get_recommendations request with a valid symbol
\* list has visited every symbol, answers 200, and maps each distinct symbol
\* to the records of its fetch when fetch and normalization succeeded and to
\* {error: message} when either failed, whatever happened to other symbols.
C1_RecommendationsPartialFailure ==
    (route = "recommendations" /\ pc = "done" /\ KeyOk /\ HasToken(symbols)) =>
        /\ status = 200
        /\ body.json = "mapping"
        /\ Len(outcomes) = Len(syms)
        /\ [k \in 1..Len(calls) |-> calls[k][2]] = ParseSymbols(symbols)
        /\ DOMAIN body.v = Range(ParseSymbols(symbols))
        /\ \A s \in DOMAIN body.v :
              LET o == outcomes[LastPass(s)]
              IN  IF o.kind = "raise"
                  THEN /\ body.v[s].json = "error_object"
                       /\ body.v[s].v = o.exc.detail
                  ELSE IF recs_to_records(o.value).kind = "raise"
                  THEN /\ body.v[s].json = "error_object"
                       /\ body.v[s].v = recs_to_records(o.value).exc.detail
                  ELSE /\ body.v[s].json = "records"
                       /\ body.v[s].v = recs_to_records(o.value).value

\* C1 witness: two symbols, the first fetch raised, the second gave records
C1_Witness ==
    /\ route = "recommendations" /\ pc = "done" /\ status = 200
    /\ Len(syms) = 2 /\ syms[1] # syms[2]
    /\ outcomes[1].kind = "raise"
    /\ body.v[syms[1]].json = "error_object"
    /\ body.v[syms[2]].json = "records"
    /\ Len(body.v[syms[2]].v) = 1

\* C2: a finished, authorised get_quotes request with a valid symbol list
\* answers 200 with one entry per distinct symbol, whatever failed upstream.
C2_QuotesFailuresCaught ==
    (route = "quotes" /\ pc = "done" /\ KeyOk /\ HasToken(symbols)) =>
        /\ status = 200
        /\ body.json = "mapping"
        /\ DOMAIN body.v = Range(ParseSymbols(symbols))

\* C3: a request whose key is missing or wrong never gets past the key
\* check, makes no provider call and is answered 403, on every route.
C3_BadKeyRejected ==
    ~KeyOk =>
        /\ pc \in {"auth", "done"}
        /\ calls = <<>>
        /\ pc = "done" => status = 403

\* C3 witness: a wrong key on a data route, answered 403
C3_Witness ==
    /\ route = "quote" /\ header = "k2" /\ API_KEY = "k1"
    /\ pc = "done" /\ status = 403 /\ calls = <<>>

\* C4: on the batch routes an authorised request is answered 400 exactly when
\* its symbols text has no non-empty token, and then no provider call was made.
C4_EmptySymbolList ==
    (route \in BatchRoutes /\ KeyOk) =>
        /\ pc = "done" => (status = 400 <=> ~HasToken(symbols))
        /\ ~HasToken(symbols) => calls = <<>>

\* C4 witness: commas and whitespace only, rejected with 400
C4_Witness ==
    /\ route = "recommendations" /\ KeyOk /\ pc = "done" /\ status = 400
    /\ symbols = <<" ", ",", " ">> /\ calls = <<>>

\* C5: a table with rows whose columns reconcile to the four keys gives one
\* record per row, in row order, with exactly the four keys, and the date of
\* record r is the index value of row r.
C5_OneRecordPerRow ==
    (pc = "normalized" /\ ~recs.none /\ Len(recs.index) >= 1 /\ Reconciles(recs)) =>
        /\ out.kind = "return"
        /\ Len(out.value) = Len(recs.index)
        /\ \A r \in 1..Len(out.value) :
              /\ DOMAIN out.value[r] = Range(required)
              /\ out.value[r][date] = recs.index[r]

\* C6: no table or no rows gives the empty sequence; a table with rows that
\* lacks a required key after the rename raises an error naming exactly the
\* missing keys.
C6_EmptyOrMissing ==
    pc = "normalized" =>
        /\ (recs.none \/ Len(recs.index) = 0) =>
              (out.kind = "return" /\ out.value = <<>>)
        /\ (~recs.none /\ Len(recs.index) >= 1
               /\ \E key \in Range(required) : key \notin RenamedLabels(recs)) =>
              /\ out.kind = "raise"
              /\ out.exc.detail.missing =
                   SelectSeq(required, LAMBDA key : key \notin RenamedLabels(recs))

\* C7: every record has all four keys, none holds the missing-value sentinel,
\* and a key whose source cells are the sentinel comes out as null.
C7_SentinelBecomesNull ==
    (pc = "normalized" /\ out.kind = "return") =>
        \A r \in 1..Len(out.value) :
            /\ DOMAIN out.value[r] = Range(required)
            /\ \A key \in Range(required) :
                  /\ out.value[r][key] # NaN
                  /\ SourceCells(recs, r, key) = {NaN} => out.value[r][key] = Null

\* C8: a finished, authorised single-symbol request answers 200 with the bare
\* payload when nothing failed, and 500 with the failure's own message when
\* the provider raised or normalization failed.
C8_SingleSymbolEnvelope ==
    (route \in {"quote", "recommendation"} /\ pc = "done" /\ KeyOk) =>
        /\ Len(outcomes) = 1
        /\ LET o == outcomes[1]
           IN  IF o.kind = "raise"
               THEN /\ status = 500
                    /\ body.json = "detail"
                    /\ body.v = o.exc.detail
               ELSE IF route = "quote"
               THEN /\ status = 200
                    /\ body.json = "info"
                    /\ body.v = o.value
               ELSE IF recs_to_records(o.value).kind = "raise"
               THEN /\ status = 500
                    /\ body.json = "detail"
                    /\ body.v = recs_to_records(o.value).exc.detail
               ELSE /\ status = 200
                    /\ body.json = "records"
                    /\ body.v = recs_to_records(o.value).value

\* C8 witness: get_recommendation answering 500 with the normalizer's message
C8_Witness ==
    /\ route = "recommendation" /\ pc = "done" /\ KeyOk
    /\ status = 500 /\ body.json = "detail"
    /\ body.v.missing = <<from_grade>>

C10_ChecksOrdered ==
    route \in BatchRoutes =>
        /\ (pc = "done" /\ ~KeyOk) => status = 403
        /\ status = 400 => KeyOk
        /\ pc \notin {"auth", "done"} => KeyOk
        /\ pc \in {"tickers", "quotes_loop", "recs_loop"} => HasToken(symbols)
        /\ calls # <<>> => (KeyOk /\ HasToken(symbols))

\* C10 witness: a bad key together with an empty symbol list, answered 403
C10_Witness ==
    /\ route = "quotes" /\ header = NoHeader /\ ~HasToken(symbols)
    /\ Len(symbols) >= 1 /\ pc = "done" /\ status = 403

====
